---- MODULE Spec2Model ----
(***************************************************************************)
(* The "build an agent" conversation client of autogen-studio's frontend:  *)
(* chat/TaskRequirementInput.tsx (the conversation controller),            *)
(* chat/api.ts (the streaming request driver and the duplex endpoint) and  *)
(* the Assistant component that owns the conversation log.                 *)
(*                                                                         *)
(* Scheduling is the browser's: every handler runs to completion, and the  *)
(* continuation of an await runs as a microtask right after the promise    *)
(* settles, so a handler together with the continuations it wakes is one   *)
(* action.  The component is re-rendered after every state change, so the  *)
(* closure a click runs reads the state variables below; inside one        *)
(* invocation of onUserInput the captured values do not change (setX only  *)
(* changes what the next render sees).                                     *)
(*                                                                         *)
(* fetchEventSource (@microsoft/fetch-event-source) is the library the     *)
(* driver is written against; the actions below follow its documented      *)
(* control flow: one fetch per create(), onopen, then onmessage per event, *)
(* onclose + resolve at the end of the body; an exception of fetch, onopen,*)
(* onmessage or the body goes to onerror, whose return schedules create()  *)
(* again and whose throw rejects the promise; an 'abort' event of the      *)
(* caller's signal disposes and resolves.                                  *)
(***************************************************************************)
EXTENDS Integers, Sequences, FiniteSets, TLC

\* ------------------------------------------------------------------ bounds
\* onUserInput invocations that pass the gallery check
MaxSubmits == 3
\* SSE events received over all streaming requests
MaxEvents == 2
\* faults of the environment: a response that is not a 2xx event stream, a
\* network error, a FatalError frame, a socket closed
MaxFaults == 1
\* edits of the text area
MaxEdits == 1

\* onUserInput invocations past the gallery check in a conversation that goes
\* on after its first turn (DuplexNext)
MaxTurns == 4
\* SSE events received in such a conversation
DuplexEvents == 1

\* WebSocket constructions of one useWebSocketConnection hook
MaxConnects == 2
\* consecutive exceptions of the WebSocket constructor
MaxThrows == 1

\* calls of abort() a caller of streamConversations makes on one token
\* the largest builder id
MaxBuilderId == 12
\* the frames of connectWS the call stack holds
StackDepth == 3
\* sessions created on the session page
MaxCreates == 3
\* inbound frames of the hook's sockets
MaxFrames == 2
MaxAborts == 2

\* the same three, for the short conversations of SpecShort
ShortSubmits == 2
ShortEvents == 2
ShortFaults == 1

\* ------------------------------------------------------- program constants
ClientErrorLow == 400
ClientErrorHigh == 500
TooManyRequests == 429

Radix == 10

Turns == 1..MaxTurns

\* strings the URL code works on, as sequences of characters
Http == <<"h", "t", "t", "p">>
Https == Http \o <<"s">>
Ws == <<"w", "s">>
Wss == Ws \o <<"s">>
SchemeSep == <<":", "/", "/">>
BuilderIdWord == <<"b", "u", "i", "l", "d", "e", "r", "_", "i", "d">>
TeamsWsPath == <<"/", "t", "e", "a", "m", "s", "/", "w", "s", "/">>

\* the base URLs of the server: http and https, with a port, with a path, and
\* with "http" or "builder_id" in the host or the path
BaseUrls ==
    { Http \o SchemeSep \o <<"a">>,
      Https \o SchemeSep \o <<"a">>,
      Http \o SchemeSep \o <<"a", ":", "8">>,
      Https \o SchemeSep \o <<"a", "/">> \o Http,
      Http \o SchemeSep \o <<"a", "/">> \o BuilderIdWord,
      Https \o SchemeSep \o BuilderIdWord \o <<".", "a">> }
BuilderIds == 0..MaxBuilderId

\* String.prototype.startsWith
StartsWith(str, prefix) ==
    Len(prefix) <= Len(str) /\ SubSeq(str, 1, Len(prefix)) = prefix

\* the positions at which pattern occurs in str
Occurrences(str, pattern) ==
    {i \in 1..(Len(str) + 1 - Len(pattern)) :
        SubSeq(str, i, i + Len(pattern) - 1) = pattern}

\* String.prototype.replace with a string pattern: the first occurrence only
ReplaceFirst(str, pattern, by) ==
    IF Occurrences(str, pattern) = {}
    THEN str
    ELSE LET i == CHOOSE j \in Occurrences(str, pattern) :
                      \A k \in Occurrences(str, pattern) : j <= k
         IN SubSeq(str, 1, i - 1) \o by \o SubSeq(str, i + Len(pattern), Len(str))

\* Number.prototype.toString of a non-negative integer
RECURSIVE toString(_)
toString(n) ==
    LET digit == <<"0", "1", "2", "3", "4", "5", "6", "7", "8", "9">>[(n % Radix) + 1]
    IN IF n < Radix THEN <<digit>> ELSE toString(n \div Radix) \o <<digit>>

\* ChatAPI.getWebsocketURL (api.ts:84-95)
getWebsocketURL(base) ==
    LET url == IF StartsWith(base, Http) THEN ReplaceFirst(base, Http, Ws)
               ELSE IF StartsWith(base, Https) THEN ReplaceFirst(base, Https, Wss)
               ELSE base
    IN url \o TeamsWsPath \o BuilderIdWord

\* ChatAPI.setupWebsocketConnection (api.ts:97-101): the URL given to new WebSocket
setupWebsocketConnection(base, builder_id) ==
    ReplaceFirst(getWebsocketURL(base), BuilderIdWord, toString(builder_id))

\* the HTTP statuses the server answers with
Statuses == {200, 400, 404, 429, 499, 500}
EventStreamContentType == "text/event-stream"
ContentTypes == {EventStreamContentType, "text/html"}

\* what the user can type
Prompts == {"", "create an agent"}
\* ids and payloads of SSE frames
EventIds == {"", "1"}
Payloads == {[role |-> "AGENT", text |-> "On it"]}
\* inbound duplex frames
WsFrames == {"user_input", "hello"}

VARIABLES
    selectedGallery,   \* TaskRequirementInput state: a gallery is selected
    taskRequirement,   \* TaskRequirementInput state: the text area's value
    websocket,         \* TaskRequirementInput state: 0 (null) or a socket
    textAreaDisabled,  \* TaskRequirementInput state: the input gate
    controller,        \* TaskRequirementInput state: 0 (null) or an AbortController
    conversations,     \* Assistant state: the conversation log
    nSubmits,          \* onUserInput invocations past the gallery check
    turn,              \* per invocation: the path it took and its prompt
    aborted,           \* per AbortController: signal.aborted
    abortCalls,        \* per AbortController: calls of abort()
    req,               \* per invocation: its streamConversations call
    sock,              \* per socket: its connection state
    arrived,           \* every SSE event handed to onmessage, in order, with its call
    frames,            \* every frame sent on a socket, in order
    notice,            \* the last messageApi.error
    nEdits,            \* edits of the text area so far
    nFaults,           \* faults of the environment so far
    hook,              \* useWebSocketConnection: ws.current, its state flags, props
    hsock,             \* per socket of the hook: its readyState
    api,               \* ChatAPI's base URL and the builder_id prop
    chatMounted,       \* TaskRequirementInput is mounted
    manager,           \* the session page: sessions, currentSession, a thrown error
    inbox              \* the hook's inbound frames: received, and forwarded to handleWSMessage

vars == <<selectedGallery, taskRequirement, websocket, textAreaDisabled,
          controller, conversations, nSubmits, turn, aborted, abortCalls,
          req, sock, arrived, frames, notice, nEdits, nFaults, hook, hsock, api,
          chatMounted,
          manager,
          inbox>>

hasConversations == Len(conversations) > 0

NoReq == [promise |-> "none", conn |-> "none", token |-> 0, listening |-> FALSE,
          attempts |-> 0, status |-> 0, opened |-> "none", prompt |-> ""]

HookSockets == 1..MaxConnects

\* the hook before its effects have run: the useState/useRef initial values;
\* clientId is the prop (TRUE: a non-empty string)
HookInit(clientId) ==
    [mounted |-> "no", clientId |-> clientId, ws |-> 0, isOpen |-> FALSE,
     loading |-> FALSE, isError |-> FALSE, lockChat |-> FALSE, attempts |-> 0]

InitComponent ==
    /\ selectedGallery = FALSE
    /\ taskRequirement = ""
    /\ websocket = 0
    /\ textAreaDisabled = FALSE
    /\ controller = 0
    /\ conversations = <<>>
    /\ nSubmits = 0
    /\ turn = [k \in Turns |-> "none"]
    /\ aborted = [k \in Turns |-> FALSE]
    /\ abortCalls = [k \in Turns |-> 0]
    /\ req = [k \in Turns |-> NoReq]
    /\ sock = [k \in Turns |-> "none"]
    /\ arrived = <<>>
    /\ frames = <<>>
    /\ notice = "none"
    /\ nEdits = 0
    /\ nFaults = 0
    /\ chatMounted = TRUE
    /\ inbox = [received |-> <<>>, forwarded |-> <<>>]

\* the sessions fetchSession installs (ids 1, 2, 3); key tells the objects apart
FetchedSessions == [i \in 1..3 |-> [id |-> i, key |-> i]]

\* currentSession when it is null or undefined
NoSession == [id |-> 0, key |-> 0]

\* the session page after its mount effect: the sessions, and as current
\* session data[0] or the one the URL's sessionId names
ManagerInit(current) ==
    [sessions |-> FetchedSessions, currentSession |-> FetchedSessions[current],
     error |-> FALSE, created |-> 0]

DefaultApi == [base |-> Http \o SchemeSep \o <<"a">>, builder_id |-> 1]

Init ==
    /\ InitComponent
    /\ hook = HookInit(TRUE)
    /\ hsock = [s \in HookSockets |-> "none"]
    /\ api = DefaultApi
    /\ manager = ManagerInit(1)


\* ------------------------------------------------------------ pure helpers

\* JSON.stringify({ message: taskRequirement }) (TaskRequirementInput.tsx:187)
JSONStringifyMessage(t) == "{\"message\":\"" \o t \o "\"}"

\* Sink with the new turn put in front of the log instead of at its end
SinkPrepend(prev, data) ==
    <<[id |-> data.id, role |-> data.data.role, content |-> data.data.text]>> \o prev

\* the sink of onUserInput: setConversations(prev => [...prev, {id, role, content}])
Sink(prev, data) ==
    Append(prev, [id |-> data.id, role |-> data.data.role, content |-> data.data.text])

\* OnMessage with a FatalError frame that empties the log
OnMessageFatalClears(prev, e) ==
    IF e.event = "FatalError" THEN <<>>
    ELSE Sink(prev, [id |-> e.id, data |-> e.data])

\* OnMessage without the FatalError test: every frame goes to the sink
OnMessageNoFatalTest(prev, e) == Sink(prev, [id |-> e.id, data |-> e.data])

\* onmessage(event) (api.ts:57-65): a FatalError frame throws before the sink
\* is called; any other frame goes to the sink once, as {id, data}
OnMessage(prev, e) ==
    IF e.event = "FatalError" THEN prev
    ELSE Sink(prev, [id |-> e.id, data |-> e.data])

\* onopen's three branches (api.ts:35-55)
ResponseOk(s, ct) == s >= 200 /\ s <= 299 /\ ct = EventStreamContentType

\* IsFatalStatus without the exception for 429
IsFatalStatusNo429(s) == s >= ClientErrorLow /\ s < ClientErrorHigh

IsFatalStatus(s) == s >= ClientErrorLow /\ s < ClientErrorHigh /\ s # TooManyRequests

OnOpen(s, ct) ==
    IF ResponseOk(s, ct) THEN "ok"
    ELSE IF IsFatalStatus(s) THEN "fatal"
    ELSE "retriable"

\* AbortController.abort(): the flag, and the count of calls
AbortedAfter(c) == [aborted EXCEPT ![c] = TRUE]
AbortCallsAfter(c) == [abortCalls EXCEPT ![c] = @ + 1]

\* the 'abort' listener fetchEventSource put on the caller's signal fires only
\* when a signal that was live at the call is aborted: dispose(), which clears
\* the retry timer and aborts the request on the wire, and resolve()
Fires(r, c) == r.token = c /\ r.listening /\ ~aborted[c] /\ r.promise = "pending"

ResolveListeners(rq, c) ==
    [j \in Turns |->
        IF Fires(rq[j], c)
        THEN [rq[j] EXCEPT !.promise = "resolved", !.conn = "closed"]
        ELSE rq[j]]

\* OnErrorReq without the dispose after a rethrown FatalError: the body is
\* still read after the promise was rejected
OnErrorReqNoDispose(r, fatal) ==
    [r EXCEPT !.promise = IF @ # "pending" THEN @
                          ELSE IF fatal THEN "rejected"
                          ELSE "pending",
              !.conn = IF fatal THEN @ ELSE "retrywait"]

\* onerror(err) (api.ts:71-80) inside the library's catch: controller.abort(),
\* then a FatalError is rethrown (dispose, reject) and anything else returns,
\* which sets the retry timer
OnErrorReq(r, fatal) ==
    [r EXCEPT !.promise = IF @ # "pending" THEN @
                          ELSE IF Fires(r, r.token) THEN "resolved"
                          ELSE IF fatal THEN "rejected"
                          ELSE "pending",
              !.conn = IF fatal THEN "closed" ELSE "retrywait"]

\* the continuation of "await chatAPI.streamConversations(...)" in onUserInput:
\* setTextAreaDisabled(true) after the try body, setTextAreaDisabled(false) in catch
GateAfter(before, after) ==
    IF before.promise = "pending" /\ after.promise = "resolved" THEN TRUE
    ELSE IF before.promise = "pending" /\ after.promise = "rejected" THEN FALSE
    ELSE textAreaDisabled

NoticeAfter(before, after) ==
    IF before.promise = "pending" /\ after.promise = "rejected" THEN "stream"
    ELSE notice

\* ---------------------------------------------------------------- UI input

\* onSelectGallery (TaskRequirementInput.tsx:84-87)
SelectGallery ==
    /\ chatMounted
    /\ ~selectedGallery
    /\ selectedGallery' = TRUE
    /\ UNCHANGED <<taskRequirement, websocket, textAreaDisabled, controller,
                   conversations, nSubmits, turn, aborted, abortCalls, req, sock,
                   arrived, frames, notice, nEdits, nFaults, hook, hsock, api,
                   chatMounted, manager, inbox>>

\* the text area's onChange; the area is disabled with the gate
OnChange(t) ==
    /\ chatMounted
    /\ ~textAreaDisabled
    /\ nEdits < MaxEdits
    /\ t # taskRequirement
    /\ taskRequirement' = t
    /\ nEdits' = nEdits + 1
    /\ UNCHANGED <<selectedGallery, websocket, textAreaDisabled, controller,
                   conversations, nSubmits, turn, aborted, abortCalls, req, sock,
                   arrived, frames, notice, nFaults, hook, hsock, api, chatMounted,
                manager, inbox>>

\* ------------------------------------------------------------- onUserInput

\* "if (!websocket) setupWebSocket()": a new socket, Connecting
SetupWebSocket(k) == [sock EXCEPT ![k] = "connecting"]

SockAfterSubmit(k) == IF websocket = 0 THEN SetupWebSocket(k) ELSE sock

\* the button is disabled with the gate
CanClick == chatMounted /\ ~textAreaDisabled

\* SubmitNoGallery without the return: the click goes on to setupWebSocket
SubmitNoGalleryNoReturn ==
    /\ CanClick
    /\ ~selectedGallery
    /\ notice' = "gallery"
    /\ sock' = SockAfterSubmit(nSubmits + 1)
    /\ UNCHANGED <<selectedGallery, taskRequirement, websocket, textAreaDisabled,
                   controller, conversations, nSubmits, turn, aborted, abortCalls,
                   req, arrived, frames, nEdits, nFaults, hook, hsock, api, chatMounted,
                manager, inbox>>

\* no gallery: the error message, and return
SubmitNoGallery ==
    /\ CanClick
    /\ ~selectedGallery
    /\ notice' = "gallery"
    /\ UNCHANGED <<selectedGallery, taskRequirement, websocket, textAreaDisabled,
                   controller, conversations, nSubmits, turn, aborted, abortCalls,
                   req, sock, arrived, frames, nEdits, nFaults, hook, hsock, api,
                chatMounted, manager, inbox>>

\* first turn, controller still null: setController(new AbortController()) is
\* for the next render; streamConversations gets null, "controller.signal"
\* throws a TypeError before any request, and the catch block runs
SubmitFirstNoController ==
    LET k == nSubmits + 1 IN
    /\ CanClick
    /\ selectedGallery
    /\ nSubmits < MaxSubmits
    /\ ~hasConversations
    /\ controller = 0
    /\ nSubmits' = k
    /\ sock' = SockAfterSubmit(k)
    /\ controller' = k
    /\ turn' = [turn EXCEPT ![k] = "typeerror"]
    /\ req' = [req EXCEPT ![k] = [NoReq EXCEPT !.promise = "rejected"]]
    /\ textAreaDisabled' = FALSE
    /\ notice' = "stream"
    /\ UNCHANGED <<selectedGallery, taskRequirement, websocket, conversations,
                   aborted, abortCalls, arrived, frames, nEdits, nFaults, hook, hsock, api,
                chatMounted, manager, inbox>>

\* first turn with a controller c from an earlier render: c.abort(),
\* setController(new AbortController()) for the next render, and
\* streamConversations(..., c, sink): fetchEventSource listens on c's signal
\* and issues the POST
SubmitFirstStream ==
    LET k == nSubmits + 1
        c == controller
        rq == ResolveListeners(req, c)
    IN
    /\ CanClick
    /\ selectedGallery
    /\ nSubmits < MaxSubmits
    /\ ~hasConversations
    /\ c # 0
    /\ nSubmits' = k
    /\ sock' = SockAfterSubmit(k)
    /\ aborted' = AbortedAfter(c)
    /\ abortCalls' = AbortCallsAfter(c)
    /\ controller' = k
    /\ turn' = [turn EXCEPT ![k] = "stream"]
    /\ req' = [rq EXCEPT ![k] =
                 [promise |-> "pending", conn |-> "fetching", token |-> c,
                  listening |-> ~AbortedAfter(c)[c], attempts |-> 1,
                  status |-> 0, opened |-> "none", prompt |-> taskRequirement]]
    /\ textAreaDisabled' = (textAreaDisabled \/ \E j \in Turns : Fires(req[j], c))
    /\ UNCHANGED <<selectedGallery, taskRequirement, websocket, conversations,
                   arrived, frames, notice, nEdits, nFaults, hook, hsock, api,
                   chatMounted, manager, inbox>>

\* a later turn: websocket?.send(JSON.stringify({message})), then the gate locks
SubmitDuplex ==
    LET k == nSubmits + 1 IN
    /\ CanClick
    /\ selectedGallery
    /\ nSubmits < MaxTurns
    /\ hasConversations
    /\ nSubmits' = k
    /\ sock' = SockAfterSubmit(k)
    /\ frames' = IF websocket # 0
                 THEN Append(frames, [sock |-> websocket, turn |-> k,
                                      data |-> JSONStringifyMessage(taskRequirement)])
                 ELSE frames
    /\ turn' = [turn EXCEPT ![k] = IF websocket # 0 THEN "duplex" ELSE "dropped"]
    /\ textAreaDisabled' = TRUE
    /\ UNCHANGED <<selectedGallery, taskRequirement, websocket, controller,
                   conversations, aborted, abortCalls, req, arrived, notice, nEdits,
                   nFaults, hook, hsock,
                   api, chatMounted, manager, inbox>>

\* ------------------------------------------------- streamConversations

\* the library's catch calls onerror: controller.abort() on the request's token
OnError(i, fatal) ==
    LET c == req[i].token
        after == OnErrorReq(req[i], fatal)
    IN
    /\ aborted' = AbortedAfter(c)
    /\ abortCalls' = AbortCallsAfter(c)
    /\ req' = [ResolveListeners(req, c) EXCEPT ![i] = after]
    /\ textAreaDisabled' = GateAfter(req[i], after)
    /\ notice' = NoticeAfter(req[i], after)

\* the response headers arrive: onopen(response)
Respond(i, s, ct) ==
    /\ req[i].conn = "fetching"
    /\ OnOpen(s, ct) # "ok" => nFaults < MaxFaults
    /\ nFaults' = IF OnOpen(s, ct) # "ok" THEN nFaults + 1 ELSE nFaults
    /\ LET r == [req[i] EXCEPT !.status = s, !.opened = OnOpen(s, ct)] IN
       IF OnOpen(s, ct) = "fatal"
       THEN LET after == OnErrorReq(r, TRUE) IN
            /\ aborted' = AbortedAfter(r.token)
            /\ abortCalls' = AbortCallsAfter(r.token)
            /\ req' = [ResolveListeners(req, r.token) EXCEPT ![i] = after]
            /\ textAreaDisabled' = GateAfter(r, after)
            /\ notice' = NoticeAfter(r, after)
       ELSE /\ req' = [req EXCEPT ![i] = [r EXCEPT !.conn = "streaming"]]
            /\ UNCHANGED <<aborted, abortCalls, textAreaDisabled, notice>>
    /\ UNCHANGED <<selectedGallery, taskRequirement, websocket, controller,
                   conversations, nSubmits, turn, sock, arrived, frames, nEdits, hook, hsock,
                   api, chatMounted, manager, inbox>>

\* one SSE frame arrives: onmessage(event)
Deliver(i, e) ==
    /\ req[i].conn = "streaming"
    /\ Len(arrived) < MaxEvents
    /\ e.event = "FatalError" => nFaults < MaxFaults
    /\ nFaults' = IF e.event = "FatalError" THEN nFaults + 1 ELSE nFaults
    /\ arrived' = Append(arrived, [id |-> e.id, event |-> e.event, data |-> e.data,
                                 from |-> i])
    /\ conversations' = OnMessage(conversations, e)
    /\ IF e.event = "FatalError"
       THEN OnError(i, TRUE)
       ELSE UNCHANGED <<aborted, abortCalls, req, textAreaDisabled, notice>>
    /\ UNCHANGED <<selectedGallery, taskRequirement, websocket, controller,
                   nSubmits, turn, sock, frames, nEdits, hook, hsock, api, chatMounted,
                manager, inbox>>

\* the body ends: onclose(), dispose(), resolve()
ServerClose(i) ==
    /\ req[i].conn = "streaming"
    /\ LET after == [req[i] EXCEPT !.conn = "closed",
                                   !.promise = IF @ = "pending" THEN "resolved" ELSE @]
       IN /\ req' = [req EXCEPT ![i] = after]
          /\ textAreaDisabled' = GateAfter(req[i], after)
    /\ UNCHANGED <<selectedGallery, taskRequirement, websocket, controller,
                   conversations, nSubmits, turn, aborted, abortCalls, sock,
                   arrived, frames, notice, nEdits, nFaults, hook, hsock, api,
                   chatMounted, manager, inbox>>

\* fetch rejects, or the body breaks mid-stream
NetworkError(i) ==
    /\ req[i].conn \in {"fetching", "streaming"}
    /\ nFaults < MaxFaults
    /\ nFaults' = nFaults + 1
    /\ OnError(i, FALSE)
    /\ UNCHANGED <<selectedGallery, taskRequirement, websocket, controller,
                   conversations, nSubmits, turn, sock, arrived, frames, nEdits, hook, hsock,
                   api, chatMounted, manager, inbox>>

\* the retry timer set after onerror returned fires: create() again
RetryTimer(i) ==
    /\ req[i].conn = "retrywait"
    /\ req' = [req EXCEPT ![i].conn = "fetching", ![i].attempts = @ + 1]
    /\ UNCHANGED <<selectedGallery, taskRequirement, websocket, textAreaDisabled,
                   controller, conversations, nSubmits, turn, aborted, abortCalls,
                   sock, arrived, frames, notice, nEdits, nFaults, hook, hsock, api,
                chatMounted, manager, inbox>>

\* ---------------------------------------------------------- setupWebSocket

\* a state update of an unmounted component is dropped
SetState(old, new) == IF chatMounted THEN new ELSE old

\* ws.onopen: setWebSocket(ws)
WsOpen(s) ==
    /\ sock[s] = "connecting"
    /\ sock' = [sock EXCEPT ![s] = "open"]
    /\ websocket' = SetState(websocket, s)
    /\ UNCHANGED <<selectedGallery, taskRequirement, textAreaDisabled, controller,
                   conversations, nSubmits, turn, aborted, abortCalls, req,
                   arrived, frames, notice, nEdits, nFaults, hook, hsock, api,
                   chatMounted, manager, inbox>>

\* ws.onclose: setWebSocket(null)
WsClose(s) ==
    /\ sock[s] \in {"connecting", "open"}
    /\ nFaults < MaxFaults
    /\ sock' = [sock EXCEPT ![s] = "closed"]
    /\ websocket' = SetState(websocket, 0)
    /\ nFaults' = nFaults + 1
    /\ UNCHANGED <<selectedGallery, taskRequirement, textAreaDisabled, controller,
                   conversations, nSubmits, turn, aborted, abortCalls, req,
                   arrived, frames, notice, nEdits, hook, hsock, api, chatMounted, manager,
                inbox>>

\* OnWsMessage opening the gate on any frame
OnWsMessageAnyFrame(disabled, d) == FALSE

\* ws.onmessage(event): if (event.data === "user_input") setTextAreaDisabled(false)
OnWsMessage(disabled, d) == IF d = "user_input" THEN FALSE ELSE disabled

\* ws.onmessage: the "user_input" control frame opens the gate
WsMessage(s, d) ==
    /\ sock[s] = "open"
    /\ textAreaDisabled' = SetState(textAreaDisabled, OnWsMessage(textAreaDisabled, d))
    /\ textAreaDisabled' # textAreaDisabled
    /\ UNCHANGED <<selectedGallery, taskRequirement, websocket, controller,
                   conversations, nSubmits, turn, aborted, abortCalls, req, sock,
                   arrived, frames, notice, nEdits, nFaults, hook, hsock, api,
                   chatMounted, manager, inbox>>

\* the frames a server sends: messages, and the FatalError frame
Events == [id : EventIds, event : {"message"}, data : Payloads]
          \cup [id : {""}, event : {"FatalError"}, data : Payloads]

Next ==
    \/ SelectGallery
    \/ \E t \in Prompts : OnChange(t)
    \/ SubmitNoGallery
    \/ SubmitFirstNoController
    \/ SubmitFirstStream
    \/ nSubmits < MaxSubmits /\ SubmitDuplex
    \/ \E i \in Turns, s \in Statuses, ct \in ContentTypes : Respond(i, s, ct)
    \/ \E i \in Turns, e \in Events : Deliver(i, e)
    \/ \E i \in Turns : ServerClose(i)
    \/ \E i \in Turns : NetworkError(i)
    \/ \E i \in Turns : RetryTimer(i)
    \/ \E s \in Turns : WsOpen(s)
    \/ \E s \in Turns : WsClose(s)
    \/ \E s \in Turns, d \in WsFrames : WsMessage(s, d)

Spec == Init /\ [][Next]_vars

\* The first turn of a conversation: the component while the user (re)submits
\* the first turn and its streams run, with every event of the streams and of
\* the sockets.  The user submits the text area as it is (no guard of the
\* component reads the prompt: it is only copied into the POST), and a click
\* after the log has its first turn, which takes the duplex branch of
\* onUserInput and touches neither a request nor the log, is left to Spec.
ShortLimits ==
    /\ nSubmits <= ShortSubmits
    /\ Len(arrived) <= ShortEvents
    /\ nFaults <= ShortFaults

NextShort ==
    \/ SelectGallery /\ ShortLimits'
    \/ SubmitNoGallery /\ ShortLimits'
    \/ SubmitFirstNoController /\ ShortLimits'
    \/ SubmitFirstStream /\ ShortLimits'
    \/ \E i \in Turns, s \in Statuses, ct \in ContentTypes :
            Respond(i, s, ct) /\ ShortLimits'
    \/ \E i \in Turns, e \in Events : Deliver(i, e) /\ ShortLimits'
    \/ \E i \in Turns : ServerClose(i) /\ ShortLimits'
    \/ \E i \in Turns : NetworkError(i) /\ ShortLimits'
    \/ \E i \in Turns : RetryTimer(i) /\ ShortLimits'
    \/ \E s \in Turns : WsOpen(s) /\ ShortLimits'
    \/ \E s \in Turns : WsClose(s) /\ ShortLimits'
    \/ \E s \in Turns, d \in WsFrames : WsMessage(s, d) /\ ShortLimits'

SpecShort == Init /\ [][NextShort]_vars


\* A conversation that goes on after its first turn: the first turn is
\* streamed (one frame puts the conversation in duplex mode), then the user
\* sends later turns while the sockets open, close and deliver control frames.
DuplexLimits == Len(arrived) <= DuplexEvents

NextDuplex ==
    \/ SelectGallery
    \/ SubmitFirstNoController
    \/ SubmitFirstStream
    \/ SubmitDuplex
    \/ \E i \in Turns, s \in Statuses, ct \in ContentTypes : Respond(i, s, ct)
    \/ \E i \in Turns, e \in Events : Deliver(i, e) /\ DuplexLimits'
    \/ \E i \in Turns : ServerClose(i)
    \/ \E s \in Turns : WsOpen(s)
    \/ \E s \in Turns : WsClose(s)
    \/ \E s \in Turns, d \in WsFrames : WsMessage(s, d)

SpecDuplex == Init /\ [][NextDuplex]_vars

\* --------------------------------------------------- useWebSocketConnection

\* the sockets the hook has constructed
Made(hs) == Cardinality({s \in HookSockets : hs[s] # "none"})

\* connectWS() (index.tsx:47-113) on the hook state st = [h, hs], when the
\* WebSocket constructor throws n times before it returns a socket:
\* setLoading(true), the socket goes to ws.current; an exception goes to the
\* catch block, which calls connectWS() again if clientId is non-empty
RECURSIVE ConnectWS(_, _)
ConnectWS(st, n) ==
    IF n = 0
    THEN LET k == Made(st.hs) + 1 IN
         [h |-> [st.h EXCEPT !.loading = TRUE, !.ws = k, !.attempts = @ + 1],
          hs |-> [st.hs EXCEPT ![k] = "connecting"]]
    ELSE LET caught == [st.h EXCEPT !.loading = FALSE, !.isError = TRUE,
                                    !.attempts = @ + 1]
         IN IF st.h.clientId
            THEN ConnectWS([h |-> caught, hs |-> st.hs], n - 1)
            ELSE [h |-> caught, hs |-> st.hs]

\* the effect on [lockChat] (index.tsx:127-136)
LockChatEffect(st, n) ==
    IF st.h.ws # 0 /\ st.hs[st.h.ws] \in {"closed", "closing"}
    THEN LET a == ConnectWS(st, n) IN [a EXCEPT !.h.lockChat = FALSE]
    ELSE st

\* the effect on [] (index.tsx:115-116): connectWS() when the hook mounts; the
\* effect on [lockChat] runs after it and finds the socket connecting
HookMount(n) ==
    /\ hook.mounted = "no"
    /\ LET st == LockChatEffect(
                    ConnectWS([h |-> [hook EXCEPT !.mounted = "yes"], hs |-> hsock], n), n)
       IN hook' = st.h /\ hsock' = st.hs
    /\ UNCHANGED <<selectedGallery, taskRequirement, websocket, textAreaDisabled,
                   controller, conversations, nSubmits, turn, aborted, abortCalls,
                   req, sock, arrived, frames, notice, nEdits, nFaults, api, chatMounted,
                manager, inbox>>

\* the caller calls setLockChat(b): the effect on [lockChat] runs, and runs
\* again if it has changed lockChat itself
SetLockChat(b, n) ==
    /\ hook.mounted = "yes"
    /\ b # hook.lockChat
    /\ hook.attempts < MaxConnects
    /\ LET st1 == LockChatEffect([h |-> [hook EXCEPT !.lockChat = b], hs |-> hsock], n)
           st2 == IF st1.h.lockChat # b THEN LockChatEffect(st1, n) ELSE st1
       IN hook' = st2.h /\ hsock' = st2.hs
    /\ UNCHANGED <<selectedGallery, taskRequirement, websocket, textAreaDisabled,
                   controller, conversations, nSubmits, turn, aborted, abortCalls,
                   req, sock, arrived, frames, notice, nEdits, nFaults, api, chatMounted,
                manager, inbox>>

\* the cleanup of the effect on [] (index.tsx:117-124)
HookUnmount ==
    /\ hook.mounted = "yes"
    /\ hook' = IF hook.ws # 0
               THEN [hook EXCEPT !.mounted = "gone", !.isOpen = FALSE,
                                 !.loading = FALSE, !.isError = FALSE]
               ELSE [hook EXCEPT !.mounted = "gone"]
    /\ hsock' = IF hook.ws # 0 /\ hsock[hook.ws] \in {"connecting", "open"}
                THEN [hsock EXCEPT ![hook.ws] = "closing"]
                ELSE hsock
    /\ UNCHANGED <<selectedGallery, taskRequirement, websocket, textAreaDisabled,
                   controller, conversations, nSubmits, turn, aborted, abortCalls,
                   req, sock, arrived, frames, notice, nEdits, nFaults, api, chatMounted,
                manager, inbox>>

\* newWs.onopen (index.tsx:53-62)
HookWsOpen(s) ==
    /\ hsock[s] = "connecting"
    /\ hsock' = [hsock EXCEPT ![s] = "open"]
    /\ hook' = [hook EXCEPT !.isOpen = TRUE, !.loading = FALSE, !.isError = FALSE]
    /\ UNCHANGED <<selectedGallery, taskRequirement, websocket, textAreaDisabled,
                   controller, conversations, nSubmits, turn, aborted, abortCalls,
                   req, sock, arrived, frames, notice, nEdits, nFaults, api, chatMounted,
                manager, inbox>>

\* the server starts the closing handshake: readyState is CLOSING, no event yet
HookWsClosing(s) ==
    /\ hsock[s] = "open"
    /\ hsock' = [hsock EXCEPT ![s] = "closing"]
    /\ UNCHANGED <<selectedGallery, taskRequirement, websocket, textAreaDisabled,
                   controller, conversations, nSubmits, turn, aborted, abortCalls,
                   req, sock, arrived, frames, notice, nEdits, nFaults, hook, api,
                chatMounted, manager, inbox>>

\* HookWsClose with the close handler leaving isOpen as it was
HookWsCloseKeepsOpen(s, wasClean, failed) ==
    /\ hsock[s] \in {"connecting", "open", "closing"}
    /\ failed => ~wasClean
    /\ hsock[s] = "connecting" => failed
    /\ hsock' = [hsock EXCEPT ![s] = "closed"]
    /\ hook' = [hook EXCEPT !.isError = IF failed \/ ~wasClean THEN TRUE ELSE @,
                            !.loading = FALSE]
    /\ UNCHANGED <<selectedGallery, taskRequirement, websocket, textAreaDisabled,
                   controller, conversations, nSubmits, turn, aborted, abortCalls,
                   req, sock, arrived, frames, notice, nEdits, nFaults, api, chatMounted,
                manager, inbox>>

\* the connection is closed: readyState is CLOSED, then, in the same task, the
\* error event if the connection failed (newWs.onerror, index.tsx:94-102) and
\* the close event (newWs.onclose, index.tsx:79-93)
HookWsClose(s, wasClean, failed) ==
    /\ hsock[s] \in {"connecting", "open", "closing"}
    /\ failed => ~wasClean
    /\ hsock[s] = "connecting" => failed
    /\ hsock' = [hsock EXCEPT ![s] = "closed"]
    /\ hook' = [hook EXCEPT !.isError = IF failed \/ ~wasClean THEN TRUE ELSE @,
                            !.isOpen = FALSE,
                            !.loading = FALSE]
    /\ UNCHANGED <<selectedGallery, taskRequirement, websocket, textAreaDisabled,
                   controller, conversations, nSubmits, turn, aborted, abortCalls,
                   req, sock, arrived, frames, notice, nEdits, nFaults, api, chatMounted,
                manager, inbox>>

\* connectWS() when the WebSocket constructor throws on every call, with
\* frames of connectWS on the stack. With a non-empty clientId the catch block
\* calls connectWS() again each time; when the stack is exhausted the
\* RangeError leaves every catch block and the effect, and React unmounts
\* the tree.
RECURSIVE ConnectWSThrowing(_, _)
ConnectWSThrowing(st, depth) ==
    IF depth = StackDepth
    THEN [st EXCEPT !.h.mounted = "crashed"]
    ELSE LET caught == [st.h EXCEPT !.loading = FALSE, !.isError = TRUE,
                                    !.attempts = @ + 1]
         IN IF st.h.clientId
            THEN ConnectWSThrowing([h |-> caught, hs |-> st.hs], depth + 1)
            ELSE [h |-> caught, hs |-> st.hs]

\* the hook mounts with a URL the WebSocket constructor rejects
HookMountThrowing ==
    /\ hook.mounted = "no"
    /\ LET st == ConnectWSThrowing([h |-> [hook EXCEPT !.mounted = "yes"],
                                    hs |-> hsock], 0)
       IN hook' = st.h /\ hsock' = st.hs
    /\ UNCHANGED <<selectedGallery, taskRequirement, websocket, textAreaDisabled,
                   controller, conversations, nSubmits, turn, aborted, abortCalls,
                   req, sock, arrived, frames, notice, nEdits, nFaults, api,
                   chatMounted, manager, inbox>>

\* the caller calls setLockChat(b) and the WebSocket constructor rejects the
\* URL: the effect on [lockChat] with connectWS() throwing
SetLockChatThrowing(b) ==
    /\ hook.mounted = "yes"
    /\ b # hook.lockChat
    /\ hook.attempts < MaxConnects
    /\ LET st0 == [h |-> [hook EXCEPT !.lockChat = b], hs |-> hsock]
           st1 == IF hook.ws # 0 /\ hsock[hook.ws] \in {"closed", "closing"}
                  THEN LET a == ConnectWSThrowing(st0, 0)
                       IN IF a.h.mounted = "crashed" THEN a
                          ELSE [a EXCEPT !.h.lockChat = FALSE]
                  ELSE st0
       IN hook' = st1.h /\ hsock' = st1.hs
    /\ UNCHANGED <<selectedGallery, taskRequirement, websocket, textAreaDisabled,
                   controller, conversations, nSubmits, turn, aborted, abortCalls,
                   req, sock, arrived, frames, notice, nEdits, nFaults, api,
                   chatMounted, manager, inbox>>

\* The two duplex connection drivers: the hook, and the socket the chat
\* component sets up on a submit.
InitHook ==
    /\ InitComponent
    /\ \E c \in BOOLEAN : hook = HookInit(c)
    /\ hsock = [s \in HookSockets |-> "none"]
    /\ api = DefaultApi
    /\ manager = ManagerInit(1)

NextHook ==
    \/ \E n \in 0..MaxThrows : HookMount(n)
    \/ \E b \in BOOLEAN, n \in 0..MaxThrows : SetLockChat(b, n)
    \/ HookUnmount
    \/ \E s \in HookSockets : HookWsOpen(s)
    \/ \E s \in HookSockets : HookWsClosing(s)
    \/ \E s \in HookSockets, wasClean \in BOOLEAN, failed \in BOOLEAN :
            HookWsClose(s, wasClean, failed)
    \/ SelectGallery
    \/ SubmitFirstNoController
    \/ \E s \in Turns : WsOpen(s)
    \/ \E s \in Turns : WsClose(s)

SpecHook == InitHook /\ [][NextHook]_vars

\* The hook with a WebSocket constructor that may reject the URL.
NextConnect ==
    \/ \E n \in 0..MaxThrows : HookMount(n)
    \/ HookMountThrowing
    \/ \E b \in BOOLEAN, n \in 0..MaxThrows : SetLockChat(b, n)
    \/ \E b \in BOOLEAN : SetLockChatThrowing(b)
    \/ HookUnmount
    \/ \E s \in HookSockets : HookWsOpen(s)
    \/ \E s \in HookSockets : HookWsClosing(s)
    \/ \E s \in HookSockets, wasClean \in BOOLEAN, failed \in BOOLEAN :
            HookWsClose(s, wasClean, failed)

SpecConnect == InitHook /\ [][NextConnect]_vars

\* the text of the frames a server sends to the hook
UngracefulClose == "WEBSOCKET_CONNECTION_CLOSED_UNGRACEFULLY_AT_BACKEND"
HookFrames ==
    { "{\"message\":\"WEBSOCKET_CONNECTION_CLOSED_UNGRACEFULLY_AT_BACKEND\"}",
      "{\"message\":\"hello\"}",
      "{\"type\":\"reply\"}",
      "null",
      "user_input" }

\* JSON.parse on these texts: an object with or without a message member,
\* null, or a SyntaxError for text that is not JSON
JSONParse(text) ==
    CASE text = "{\"message\":\"WEBSOCKET_CONNECTION_CLOSED_UNGRACEFULLY_AT_BACKEND\"}" ->
             [kind |-> "object", message |-> UngracefulClose]
      [] text = "{\"message\":\"hello\"}" -> [kind |-> "object", message |-> "hello"]
      [] text = "{\"type\":\"reply\"}" -> [kind |-> "object", message |-> "undefined"]
      [] text = "null" -> [kind |-> "null", message |-> "undefined"]
      [] OTHER -> [kind |-> "SyntaxError", message |-> "undefined"]

\* newWs.onmessage (index.tsx:63-78) on a frame: "error" for the backend's
\* notice, "forward" for a call of handleWSMessage, "throw" when JSON.parse
\* throws and the handler ends there
OnHookMessage(text) ==
    LET parsed == JSONParse(text) IN
    IF parsed.kind = "SyntaxError" THEN "throw"
    ELSE IF parsed.message = UngracefulClose THEN "error"
    ELSE "forward"

\* a frame arrives on an open socket of the hook
HookWsMessage(s, text) ==
    /\ hsock[s] = "open"
    /\ Len(inbox.received) < MaxFrames
    /\ inbox' = [received |-> Append(inbox.received, text),
                 forwarded |-> IF OnHookMessage(text) = "forward"
                               THEN Append(inbox.forwarded, text)
                               ELSE inbox.forwarded]
    /\ hook' = IF OnHookMessage(text) = "error" THEN [hook EXCEPT !.isError = TRUE]
               ELSE hook
    /\ UNCHANGED <<selectedGallery, taskRequirement, websocket, textAreaDisabled,
                   controller, conversations, nSubmits, turn, aborted, abortCalls,
                   req, sock, arrived, frames, notice, nEdits, nFaults, hsock, api,
                   chatMounted, manager>>

\* The hook with its inbound frames.
NextInbound ==
    \/ \E n \in 0..MaxThrows : HookMount(n)
    \/ \E b \in BOOLEAN, n \in 0..MaxThrows : SetLockChat(b, n)
    \/ HookUnmount
    \/ \E s \in HookSockets : HookWsOpen(s)
    \/ \E s \in HookSockets : HookWsClosing(s)
    \/ \E s \in HookSockets, wasClean \in BOOLEAN, failed \in BOOLEAN :
            HookWsClose(s, wasClean, failed)
    \/ \E s \in HookSockets, text \in HookFrames : HookWsMessage(s, text)

SpecInbound == InitHook /\ [][NextInbound]_vars

\* ------------------------------------------------------------ session page

\* onSelectSession: a click on a session of the list
onSelectSession(i) ==
    /\ i \in DOMAIN manager.sessions
    /\ manager.currentSession # manager.sessions[i]
    /\ manager' = [manager EXCEPT !.currentSession = manager.sessions[i]]
    /\ UNCHANGED <<selectedGallery, taskRequirement, websocket, textAreaDisabled,
                   controller, conversations, nSubmits, turn, aborted, abortCalls,
                   req, sock, arrived, frames, notice, nEdits, nFaults, hook,
                   hsock, api, chatMounted, inbox>>

\* sessions.filter((session) => session.id !== sessionId)
FilterSessions(sessions, sessionId) ==
    LET keep(x) == x.id # sessionId IN SelectSeq(sessions, keep)

\* onDeleteSession: a click on the delete button of session i, which is
\* disabled when the list has one session. filteredSessions[0].id is a
\* TypeError when nothing is left; the state updates before it are kept.
onDeleteSession(i) ==
    /\ i \in DOMAIN manager.sessions
    /\ Len(manager.sessions) # 1
    /\ LET sessionId == manager.sessions[i].id
           filteredSessions == FilterSessions(manager.sessions, sessionId)
           isCurrent == manager.currentSession # NoSession
                        /\ manager.currentSession.id = sessionId
       IN manager' =
            [manager EXCEPT
               !.sessions = filteredSessions,
               !.currentSession =
                   IF ~isCurrent THEN @
                   ELSE IF filteredSessions = <<>> THEN NoSession
                        ELSE filteredSessions[1],
               !.error = @ \/ (isCurrent /\ filteredSessions = <<>>)]
    /\ UNCHANGED <<selectedGallery, taskRequirement, websocket, textAreaDisabled,
                   controller, conversations, nSubmits, turn, aborted, abortCalls,
                   req, sock, arrived, frames, notice, nEdits, nFaults, hook,
                   hsock, api, chatMounted, inbox>>

\* onSaveSession: a new session with id sessions.length + 1, appended and
\* made current
onSaveSession ==
    /\ manager.created < MaxCreates
    /\ LET session == [id |-> Len(manager.sessions) + 1,
                       key |-> Len(FetchedSessions) + manager.created + 1]
       IN manager' = [manager EXCEPT !.sessions = Append(@, session),
                                     !.currentSession = session,
                                     !.created = @ + 1]
    /\ UNCHANGED <<selectedGallery, taskRequirement, websocket, textAreaDisabled,
                   controller, conversations, nSubmits, turn, aborted, abortCalls,
                   req, sock, arrived, frames, notice, nEdits, nFaults, hook,
                   hsock, api, chatMounted, inbox>>

\* The session page on its own.
InitSessions ==
    /\ InitComponent
    /\ hook = HookInit(TRUE)
    /\ hsock = [s \in HookSockets |-> "none"]
    /\ api = DefaultApi
    /\ \E current \in DOMAIN FetchedSessions : manager = ManagerInit(current)

NextSessions ==
    \/ \E i \in 1..(Len(FetchedSessions) + MaxCreates) : onSelectSession(i)
    \/ \E i \in 1..(Len(FetchedSessions) + MaxCreates) : onDeleteSession(i)
    \/ onSaveSession

SpecSessions == InitSessions /\ [][NextSessions]_vars

\* TaskRequirementInput is unmounted: it has no effect cleanup, its only
\* effect fetches the galleries (TaskRequirementInput.tsx:75-77)
ChatUnmount ==
    /\ chatMounted
    /\ chatMounted' = FALSE
    /\ UNCHANGED <<selectedGallery, taskRequirement, websocket, textAreaDisabled,
                   controller, conversations, nSubmits, turn, aborted, abortCalls,
                   req, sock, arrived, frames, notice, nEdits, nFaults, hook,
                   hsock, api, manager, inbox>>

\* The two duplex connection drivers with their teardown.
NextTeardown ==
    \/ \E n \in 0..MaxThrows : HookMount(n)
    \/ \E b \in BOOLEAN, n \in 0..MaxThrows : SetLockChat(b, n)
    \/ HookUnmount
    \/ \E s \in HookSockets : HookWsOpen(s)
    \/ \E s \in HookSockets : HookWsClosing(s)
    \/ \E s \in HookSockets, wasClean \in BOOLEAN, failed \in BOOLEAN :
            HookWsClose(s, wasClean, failed)
    \/ SelectGallery
    \/ SubmitFirstNoController
    \/ \E s \in Turns : WsOpen(s)
    \/ \E s \in Turns : WsClose(s)
    \/ ChatUnmount

SpecTeardown == InitHook /\ [][NextTeardown]_vars

\* The chat component's socket for every base URL and builder id.
InitUrl ==
    /\ InitComponent
    /\ hook = HookInit(TRUE)
    /\ hsock = [s \in HookSockets |-> "none"]
    /\ api \in [base : BaseUrls, builder_id : BuilderIds]
    /\ manager = ManagerInit(1)

NextUrl ==
    \/ SelectGallery
    \/ SubmitFirstNoController
    \/ \E s \in Turns : WsOpen(s)
    \/ \E s \in Turns : WsClose(s)

SpecUrl == InitUrl /\ [][NextUrl]_vars

\* The driver on its own: streamConversations called by a caller that behaves
\* as onUserInput's try/catch does around the await, but passes a token of its
\* own, still live or already aborted at the call, and may abort it later.
StreamConversations(live) ==
    LET k == nSubmits + 1 IN
    /\ nSubmits < MaxSubmits
    /\ nSubmits' = k
    /\ aborted' = [aborted EXCEPT ![k] = ~live]
    /\ abortCalls' = [abortCalls EXCEPT ![k] = IF live THEN 0 ELSE 1]
    /\ turn' = [turn EXCEPT ![k] = "stream"]
    /\ req' = [req EXCEPT ![k] =
                 [promise |-> "pending", conn |-> "fetching", token |-> k,
                  listening |-> live, attempts |-> 1,
                  status |-> 0, opened |-> "none", prompt |-> taskRequirement]]
    /\ UNCHANGED <<selectedGallery, taskRequirement, websocket, textAreaDisabled,
                   controller, conversations, sock, arrived, frames, notice,
                   nEdits, nFaults, hook, hsock, api, chatMounted, manager, inbox>>

\* the caller aborts the token of a call it made
AbortToken(c) ==
    /\ \E i \in Turns : turn[i] = "stream" /\ req[i].token = c
    /\ abortCalls[c] < MaxAborts
    /\ aborted' = AbortedAfter(c)
    /\ abortCalls' = AbortCallsAfter(c)
    /\ req' = ResolveListeners(req, c)
    /\ textAreaDisabled' = (textAreaDisabled \/ \E j \in Turns : Fires(req[j], c))
    /\ UNCHANGED <<selectedGallery, taskRequirement, websocket, controller,
                   conversations, nSubmits, turn, sock, arrived, frames, notice,
                   nEdits, nFaults, hook, hsock, api, chatMounted, manager, inbox>>

NextDriver ==
    \/ \E live \in BOOLEAN : nSubmits < ShortSubmits /\ StreamConversations(live)
    \/ \E c \in Turns : AbortToken(c)
    \/ \E i \in Turns, s \in Statuses, ct \in ContentTypes : Respond(i, s, ct)
    \/ \E i \in Turns, e \in Events : Deliver(i, e)
    \/ \E i \in Turns : ServerClose(i)
    \/ \E i \in Turns : NetworkError(i)
    \/ \E i \in Turns : RetryTimer(i)

SpecDriver == Init /\ [][NextDriver]_vars


\* ------------------------------------------------------------ vocabulary

\* a network request of call i is on the wire
StreamInFlight(i) == req[i].conn \in {"fetching", "streaming"}

\* call i of streamConversations has not ended: a request is on the wire or
\* its retry timer is set
CallLive(i) == req[i].conn \in {"fetching", "streaming", "retrywait"}

SocketActive(s) == sock[s] \in {"connecting", "open"}

\* call i ended with a Fatal classification: the FatalError was rethrown by
\* onerror and the promise rejected
FatalEnded(i) == req[i].conn = "closed" /\ req[i].promise = "rejected"

\* the turns that reached a transport
Accepted == {k \in Turns : turn[k] \in {"stream", "duplex"}}

\* the turns whose submit ended with the input locked, or is still awaited
FramesOf(k) == {n \in DOMAIN frames : frames[n].turn = k}

IsPrefix(a, b) == Len(a) <= Len(b) /\ SubSeq(b, 1, Len(a)) = a

IsMessage(e) == e.event # "FatalError"

TurnOf(e) == [id |-> e.id, role |-> e.data.role, content |-> e.data.text]

RECURSIVE TurnsOf(_)
TurnsOf(es) ==
    IF es = <<>> THEN <<>>
    ELSE LET rest == TurnsOf(SubSeq(es, 1, Len(es) - 1))
             last == es[Len(es)]
         IN IF IsMessage(last) THEN Append(rest, TurnOf(last)) ELSE rest

\* ------------------------------------------------------------------ claims

\* C1: in every reachable state at most one transport handle is active: no
\* streaming request is in flight while a socket of the conversation is
\* connecting or open.
C1_OneActiveTransport ==
    ~((\E i \in Turns : StreamInFlight(i)) /\ (\E s \in Turns : SocketActive(s)))

\* C2: at any time at most one initiating streaming request is in flight: a
\* resubmitted first turn cancels the request before it.
C2_AtMostOneStream ==
    Cardinality({i \in Turns : StreamInFlight(i)}) <= 1

\* C3: when a turn is submitted while another streaming request is in flight,
\* abort() is invoked exactly once on the earlier request's AbortController,
\* counting the submit path and the driver's onerror.
C3_PriorTokenAbortedOnce ==
    \A i, j \in Turns :
        (i < j /\ turn[i] = "stream" /\ turn[j] = "stream" /\ CallLive(i))
            => abortCalls[req[i].token] = 1

\* C4: single-flight: while a submitted turn's streaming request has not
\* completed, the input gate is locked.
C4_GateLockedWhileInFlight ==
    \A i \in Turns : (req[i].promise = "pending" /\ CallLive(i)) => textAreaDisabled

\* C5: after N accepted turns have been processed the log holds exactly N
\* entries.
C5_LogHasOneEntryPerTurn ==
    (\A i \in Turns : ~CallLive(i)) => Len(conversations) = Cardinality(Accepted)

\* C6: every turn that reached the try block of a submit is transmitted
\* exactly once: one POST for a first turn, one frame for a later turn.
C6_TransmittedExactlyOnce ==
    \A k \in Turns :
        /\ turn[k] = "stream" => req[k].attempts = 1
        /\ turn[k] \in {"duplex", "dropped"} => Cardinality(FramesOf(k)) = 1

\* C7: the ids of the turns in the log are pairwise distinct.
C7_UniqueIds ==
    \A a, b \in DOMAIN conversations :
        a # b => conversations[a].id # conversations[b].id

\* C8: the log is append-only: every step leaves the old log a prefix of the
\* new one.
C8_LogAppendOnly == [][IsPrefix(conversations, conversations')]_vars

C8_Witness ==
    /\ Len(conversations) = 2
    /\ conversations[1].id # conversations[2].id

\* C9: the sink is invoked once per received message frame, in arrival order:
\* the log is the sequence of received message frames.
C9_LogIsArrivalOrder == conversations = TurnsOf(arrived)

C9_Witness ==
    /\ Len(arrived) = 2
    /\ IsMessage(arrived[1]) /\ IsMessage(arrived[2])
    /\ arrived[1].id # arrived[2].id
    /\ Len(conversations) = 2

\* C10: a response status in [400,500) other than 429 is Fatal: the call is
\* rejected with the FatalError and nothing is retried; 429 and 5xx are
\* classified Retriable, not Fatal: the call is not rejected for the status
\* (only a FatalError frame read later can reject it).
C10_StatusClassification ==
    \A i \in Turns :
        LET s == req[i].status IN
        /\ (s >= 400 /\ s < 500 /\ s # 429) =>
              /\ req[i].opened = "fatal"
              /\ req[i].promise = "rejected"
              /\ req[i].conn = "closed"
        /\ (s = 429 \/ s >= 500) =>
              /\ req[i].opened = "retriable"
              /\ req[i].promise = "rejected" =>
                    \E n \in DOMAIN arrived : ~IsMessage(arrived[n])

C10_Witness ==
    \E i \in Turns : req[i].status = 404 /\ req[i].promise = "rejected"

\* C11: one call of streamConversations performs at most one network request:
\* after a retriable condition no retry is scheduled and no second request is
\* issued.
C11_NoAutoRetry ==
    \A i \in Turns : req[i].attempts <= 1 /\ req[i].conn # "retrywait"

\* C14: Fatal is absorbing: once a streaming request has ended with a Fatal
\* classification the input gate is locked in every later state.
C14_FatalAbsorbing ==
    (\E i \in Turns : FatalEnded(i)) => textAreaDisabled

\* C15: when a streaming request whose response was classified Retriable
\* (429, 5xx, unexpected content type) ends, the input gate is unlocked.
C15_RetriableUnlocks ==
    [][\A i \in Turns :
          (/\ req[i].opened = "retriable"
           /\ req[i].conn = "streaming"
           /\ req'[i].conn = "closed"
           /\ req'[i].promise = "resolved") => ~textAreaDisabled']_vars

\* C17: an empty prompt never reaches a transport: no streaming request
\* carries it and no duplex frame carries it.
C17_NoEmptyPrompt ==
    /\ \A k \in Turns : turn[k] = "stream" => req[k].prompt # ""
    /\ \A n \in DOMAIN frames : frames[n].data # JSONStringifyMessage("")

\* C18: cancellation never produces a Fatal outcome: a call of
\* streamConversations whose token has been aborted does not reject with a
\* FatalError.
C18_CancelledNeverFatal ==
    \A i \in Turns :
        (turn[i] = "stream" /\ aborted[req[i].token]) => ~FatalEnded(i)

\* C19: a submit in duplex mode with no open socket does not end as a
\* successful submit that locked the input with nothing sent.
C19_NoSilentDrop ==
    ~(\E k \in Turns : turn[k] = "dropped" /\ FramesOf(k) = {} /\ textAreaDisabled)

\* C16: while no gallery is selected a submit is rejected locally: no
\* streaming request is issued, no socket is created, nothing is sent, and the
\* log, the cancellation token and the input gate are as they were (the input
\* stays unlocked).
C16_NoGalleryNoEffect ==
    ~selectedGallery =>
        /\ \A k \in Turns : req[k] = NoReq /\ sock[k] = "none" /\ turn[k] = "none"
        /\ \A c \in Turns : ~aborted[c] /\ abortCalls[c] = 0
        /\ frames = <<>>
        /\ conversations = <<>>
        /\ controller = 0
        /\ websocket = 0
        /\ ~textAreaDisabled

C16_Witness == ~selectedGallery /\ notice = "gallery"

\* C12: a FatalError frame ends its stream as Fatal even after earlier frames
\* of the same stream were applied: the call is rejected and closed, the sink
\* is not invoked for the FatalError frame, and no later frame of that stream
\* is received.
C12_FatalFrameStopsSink ==
    \A n \in DOMAIN arrived :
        ~IsMessage(arrived[n]) =>
            /\ FatalEnded(arrived[n].from)
            /\ \A m \in DOMAIN arrived : m > n => arrived[m].from # arrived[n].from
            /\ Len(conversations) =
                   Cardinality({m \in DOMAIN arrived : IsMessage(arrived[m])})

C12_Witness ==
    /\ Len(arrived) = 2
    /\ IsMessage(arrived[1]) /\ ~IsMessage(arrived[2])
    /\ arrived[1].from = arrived[2].from
    /\ Len(conversations) = 1

\* call i was classified Fatal: a 4xx status other than 429 at onopen, or a
\* FatalError frame read from its stream
ClassifiedFatal(i) ==
    \/ req[i].opened = "fatal"
    \/ \E n \in DOMAIN arrived : ~IsMessage(arrived[n]) /\ arrived[n].from = i

\* C13: a Fatal classification is never swallowed: a call that was classified
\* Fatal is rejected, whether its token was live or already aborted when the
\* error occurred.
C13_FatalNeverSwallowed ==
    \A i \in Turns : ClassifiedFatal(i) => req[i].promise = "rejected"

\* C20: once the socket that carried an earlier turn has closed, the next
\* submit sends its turn on a socket that is open: it re-establishes the
\* channel first and sends then.
C20_ReopenBeforeSend ==
    [][\A k \in Turns :
          (/\ turn[k] = "none"
           /\ turn'[k] \in {"duplex", "dropped"}
           /\ \E n \in DOMAIN frames : sock[frames[n].sock] = "closed")
          => \E n \in DOMAIN frames' :
                 frames'[n].turn = k /\ sock'[frames'[n].sock] = "open"]_vars

\* C22: when the first-turn stream completes normally the log holds exactly
\* the streamed turns, a duplex socket has been set up, and the input gate is
\* unlocked for the next user turn.
C22_CompletedStreamAcceptsInput ==
    [][\A i \in Turns :
          (/\ req[i].opened = "ok"
           /\ req[i].conn = "streaming"
           /\ req'[i].conn = "closed"
           /\ req'[i].promise = "resolved")
          => /\ conversations' = TurnsOf(arrived')
             /\ \E s \in Turns : sock'[s] # "none"
             /\ ~textAreaDisabled']_vars

\* C24: in duplex mode (the log has a turn and a later turn has been
\* submitted) the only step that takes the input gate from locked to unlocked
\* is the receipt of a control frame on an open socket: such a step changes
\* nothing but the gate.
C24_OnlyUserInputUnlocks ==
    [][(/\ hasConversations
        /\ \E k \in Turns : turn[k] \in {"duplex", "dropped"}
        /\ textAreaDisabled
        /\ ~textAreaDisabled')
       => /\ \E s \in Turns : sock[s] = "open"
          /\ UNCHANGED <<req, arrived, conversations, frames, sock, notice,
                         aborted, abortCalls>>]_vars

\* C25: a submit in duplex mode sends exactly one outbound frame, the JSON
\* encoding of {message: <the text>}, issues no streaming request and leaves
\* the input locked.
C25_DuplexSubmitSendsOneFrame ==
    [][\A k \in Turns :
          (turn[k] = "none" /\ turn'[k] \in {"duplex", "dropped"})
          => /\ Len(frames') = Len(frames) + 1
             /\ frames'[Len(frames')].data = JSONStringifyMessage(taskRequirement)
             /\ frames'[Len(frames')].turn = k
             /\ req' = req
             /\ textAreaDisabled']_vars

\* C26: when a socket closes in duplex mode the input gate is unlocked
\* afterwards, so that a next submit is possible.
C26_CloseUnlocks ==
    [][\A s \in Turns :
          (hasConversations /\ sock[s] = "open" /\ sock'[s] = "closed")
          => ~textAreaDisabled']_vars

\* C28: every invocation of the streaming driver gets a token of its own: the
\* AbortController passed is not null, was created by that submission, is not
\* aborted at the call, and no other invocation is given it.
C28_TokenPerInvocation ==
    \A k \in Turns :
        /\ turn[k] # "typeerror"
        /\ turn[k] = "stream" =>
              /\ req[k].token = k
              /\ req[k].listening
              /\ \A j \in Turns :
                    (j # k /\ turn[j] = "stream") => req[j].token # req[k].token

\* C23: the frame "user_input" unlocks the input; received again while the
\* input is unlocked it changes nothing; a frame with any other text leaves
\* the gate as it is.
C23_UserInputIdempotent ==
    \A d \in WsFrames :
        LET once == OnWsMessage(textAreaDisabled, d) IN
        /\ d = "user_input" => ~once
        /\ d # "user_input" => once = textAreaDisabled
        /\ OnWsMessage(once, d) = once

\* the conversation has its first turn, every streaming call has resolved
\* (which locked the input), and a frame on the open socket has unlocked it
C23_Witness ==
    /\ hasConversations
    /\ \E i \in Turns : turn[i] = "stream"
    /\ \A i \in Turns : turn[i] = "stream" => req[i].promise = "resolved"
    /\ \E s \in Turns : sock[s] = "open"
    /\ ~textAreaDisabled

\* C30: a Fatal classification leaves the log as it was at the moment of the
\* error: the step that ends a call as Fatal neither adds nor removes a turn.
C30_FatalLeavesLog ==
    [][\A i \in Turns :
          (~FatalEnded(i) /\ req'[i].conn = "closed" /\ req'[i].promise = "rejected")
          => conversations' = conversations]_vars

C30_Witness ==
    \E i \in Turns :
        /\ FatalEnded(i)
        /\ \E n \in DOMAIN arrived : arrived[n].from = i /\ IsMessage(arrived[n])
        /\ Len(conversations) >= 1

\* C27: once the duplex connection has been made, a step starts at most one
\* connection attempt, and only a caller's step starts one: a step in which a
\* socket opens, starts closing or closes starts none. In the chat component a
\* socket is only made by a submit, one per submit.
C27_DemandDrivenReconnect ==
    [][/\ hook.mounted = "yes" =>
            /\ hook'.attempts <= hook.attempts + 1
            /\ hook'.attempts # hook.attempts =>
                   \A s \in HookSockets : hsock[s] # "none" => hsock'[s] = hsock[s]
       /\ LET made == {s \in Turns : sock[s] = "none" /\ sock'[s] # "none"} IN
            /\ Cardinality(made) <= 1
            /\ made # {} => /\ nSubmits' = nSubmits + 1
                            /\ sock' = [sock EXCEPT ![nSubmits'] = "connecting"]]_vars

\* C29: a socket is Connecting when it is made, becomes Open only from
\* Connecting, and never leaves Closed; the hook's isOpen becomes true only in
\* the step in which a socket opens and is false after a step in which a socket
\* closes (with or without an error event); the chat component's socket
\* reference is set only to a socket that opens in that step and is null after
\* a step in which a socket closes.
C29_ConnectionLifecycle ==
    [][/\ \A s \in HookSockets :
            /\ (hsock[s] = "none" /\ hsock'[s] # "none") => hsock'[s] = "connecting"
            /\ (hsock[s] # "open" /\ hsock'[s] = "open") => hsock[s] = "connecting"
            /\ hsock[s] = "closing" => hsock'[s] \in {"closing", "closed"}
            /\ hsock[s] = "closed" => hsock'[s] = "closed"
            /\ (hsock[s] # "closed" /\ hsock'[s] = "closed") => ~hook'.isOpen
       /\ (~hook.isOpen /\ hook'.isOpen) =>
            \E s \in HookSockets : hsock[s] = "connecting" /\ hsock'[s] = "open"
       /\ \A s \in Turns :
            /\ (sock[s] = "none" /\ sock'[s] # "none") => sock'[s] = "connecting"
            /\ (sock[s] # "open" /\ sock'[s] = "open") => sock[s] = "connecting"
            /\ sock[s] = "closed" => sock'[s] = "closed"
            /\ (sock[s] # "closed" /\ sock'[s] = "closed") => websocket' = 0
       /\ (websocket' # websocket /\ websocket' # 0) =>
            sock[websocket'] = "connecting" /\ sock'[websocket'] = "open"]_vars

\* both drivers have had a socket open and closed by an event, the hook's one
\* after an error
C29_Witness ==
    /\ \E s \in HookSockets : hsock[s] = "closed"
    /\ hook.mounted = "yes" /\ hook.isError /\ ~hook.isOpen /\ hook.attempts >= 2
    /\ \E s \in Turns : sock[s] = "closed"
    /\ websocket = 0

\* the URL of the chat component's sockets
SocketUrl == setupWebsocketConnection(api.base, api.builder_id)

\* the base after its scheme
AfterScheme(base, scheme) ==
    SubSeq(base, Len(scheme) + Len(SchemeSep) + 1, Len(base))

\* C21: a socket made for an http:// base has the URL ws://, the rest of the
\* base, /teams/ws/ and the builder id in decimal; for an https:// base, the
\* same after wss://.
C21_DuplexEndpoint ==
    (\E s \in Turns : sock[s] # "none") =>
        /\ StartsWith(api.base, Http \o SchemeSep) =>
               SocketUrl = Ws \o SchemeSep \o AfterScheme(api.base, Http)
                              \o TeamsWsPath \o toString(api.builder_id)
        /\ StartsWith(api.base, Https \o SchemeSep) =>
               SocketUrl = Wss \o SchemeSep \o AfterScheme(api.base, Https)
                               \o TeamsWsPath \o toString(api.builder_id)

\* C31: a step that unmounts a driver leaves the socket it holds closing or
\* closed, and no other step of the client takes a socket out of Connecting or
\* Open: a socket leaves them only by the unmount or by an event of the
\* connection.
C31_CloseOnlyOnTeardown ==
    [][/\ (hook.mounted = "yes" /\ hook'.mounted = "gone" /\ hook.ws # 0) =>
            hsock'[hook.ws] \in {"closing", "closed"}
       /\ (chatMounted /\ ~chatMounted' /\ websocket # 0) =>
            sock'[websocket] \in {"closing", "closed"}
       /\ (nSubmits' # nSubmits \/ frames' # frames \/ textAreaDisabled' # textAreaDisabled
              \/ hook'.lockChat # hook.lockChat \/ hook'.attempts # hook.attempts) =>
            /\ \A s \in Turns : sock[s] \in {"connecting", "open"} => sock'[s] = sock[s]
            /\ \A s \in HookSockets :
                   hsock[s] \in {"connecting", "open"} => hsock'[s] = hsock[s]]_vars

\* the gate is locked and nothing is left that could unlock it: no socket can
\* deliver "user_input" and no invocation of onUserInput is still running
GateStuck ==
    /\ textAreaDisabled
    /\ \A s \in Turns : ~SocketActive(s)
    /\ \A i \in Turns : ~CallLive(i)

\* C32: outside Fatal a locked gate can still be unlocked: a socket that can
\* deliver "user_input" is connecting or open, or an invocation of onUserInput
\* that can still reach its catch block is running.
C32_GateCanUnlock == (\A i \in Turns : ~FatalEnded(i)) => ~GateStuck

\* the sockets setupWebSocket has made, and the most recent of them
SocketsMade == {s \in Turns : sock[s] # "none"}
LastSocket == CHOOSE s \in SocketsMade : \A t \in SocketsMade : t <= s

\* C33: at most one socket of the chat component is connecting or open, and
\* the websocket state is non-null exactly when the most recently made socket
\* is open, and then refers to it.
C33_OneSocketAtATime ==
    /\ Cardinality({s \in Turns : SocketActive(s)}) <= 1
    /\ SocketsMade = {} => websocket = 0
    /\ SocketsMade # {} =>
          /\ (websocket # 0) <=> (sock[LastSocket] = "open")
          /\ websocket # 0 => websocket = LastSocket

\* C34: while the hook is mounted, isOpen is true only if ws.current is a
\* socket that has opened and has not closed yet, and isOpen and loading are
\* not both true.
C34_FlagsDescribeCurrentSocket ==
    hook.mounted = "yes" =>
        /\ hook.isOpen => (hook.ws # 0 /\ hsock[hook.ws] \in {"open", "closing"})
        /\ ~(hook.isOpen /\ hook.loading)

\* C35: every call of connectWS returns: its retries end before the call
\* stack is exhausted, whatever the WebSocket constructor does.
C35_ConnectWSTerminates == hook.mounted # "crashed"

\* C37: the ids of the sessions in the list are pairwise distinct.
C37_SessionIdsDistinct ==
    \A i, j \in DOMAIN manager.sessions :
        i # j => manager.sessions[i].id # manager.sessions[j].id

\* C36: currentSession is null or one of the sessions of the list, and no
\* delete has thrown.
C36_CurrentSessionInList ==
    /\ ~manager.error
    /\ \/ manager.currentSession = NoSession
       \/ \E i \in DOMAIN manager.sessions :
              manager.sessions[i] = manager.currentSession

\* the frame is the backend's notice of an ungraceful close: it is JSON with
\* that message member
IsUngracefulNotice(text) ==
    JSONParse(text).kind = "object" /\ JSONParse(text).message = UngracefulClose

\* C38: a frame that is the backend's notice sets isError and is not
\* forwarded; every other frame, JSON or not, is appended to what
\* handleWSMessage has been given.
C38_InboundFramesForwarded ==
    [][Len(inbox'.received) = Len(inbox.received) + 1 =>
         LET text == inbox'.received[Len(inbox'.received)] IN
         IF IsUngracefulNotice(text)
         THEN hook'.isError /\ inbox'.forwarded = inbox.forwarded
         ELSE inbox'.forwarded = Append(inbox.forwarded, text)]_vars

====
